---- MODULE Spec2Model ----
(***************************************************************************)
(* Model of flask_server.py: the POST /process and POST /test handlers    *)
(* with the pipeline analyze_with_llm (extract -> connect -> append, each  *)
(* with a retry loop of max_retries attempts), and the GET /health handler *)
(* with test_google_sheets_connection.                                     *)
(*                                                                         *)
(* Representation of Python values                                         *)
(*   - a str is a sequence of one-character strings                        *)
(*   - a JSON value is a record [t, s, n]: t is "absent" (key missing),    *)
(*     "str" (text in s) or "num" (number in n)                            *)
(*   - a confidence is held in hundredths: 0.0 -> 0, 0.8 -> 80, 0.95 -> 95 *)
(*   - datetime.now().strftime(...) is the value of the clock, one unit    *)
(*     per second                                                          *)
(***************************************************************************)
EXTENDS Integers, Sequences, FiniteSets, TLC

VARIABLES
    ledger,          \* rows of the worksheet "Sale List", oldest first
    clock,           \* wall clock read by datetime.now()
    pc,              \* position of the handler: idle, extract, connect, append,
                     \* health_connect, health_append
    endpoint,        \* route of the request being handled (or last handled)
    served,          \* number of requests received so far
    req,             \* payload of the request being handled (or last handled)
    email_response,  \* local of analyze_with_llm (None before the first return)
    attempt,         \* loop index of the retry loop being executed
    worksheet,       \* TRUE iff the local worksheet is not None
    row_data,        \* local row_data (<<>> before it is assigned)
    calls,           \* external calls made by the current run, in order
    ledger0,         \* the ledger as it was when the request arrived
    response         \* HTTP response of the last finished request

vars == <<ledger, clock, pc, endpoint, served, req, email_response, attempt,
          worksheet, row_data, calls, ledger0, response>>

----------------------------------------------------------------------------
(* Bounds of the model *)

MaxRequests == 2
MaxClock == 1

----------------------------------------------------------------------------
(* Python values *)

Absent == [t |-> "absent", s |-> <<>>, n |-> 0]
Str(s) == [t |-> "str", s |-> s, n |-> 0]
Num(n) == [t |-> "num", s |-> <<>>, n |-> n]

\* bool(v): None, "" and 0 are falsy
Truthy(v) ==
    CASE v.t = "str" -> v.s # <<>>
      [] v.t = "num" -> v.n # 0
      [] OTHER -> FALSE

\* the characters str.strip() removes, those with str.isspace(), among the
\* characters up to U+00FF: space, \t, \n, \r, \f, U+000B, U+001C..U+001F,
\* U+0085 and U+00A0
Whitespace ==
    {" ", "\t", "\n", "\r", "\f",
     "", "", "", "", "", "", " "}

RECURSIVE lstrip(_)
lstrip(s) == IF s # <<>> /\ Head(s) \in Whitespace THEN lstrip(Tail(s)) ELSE s

RECURSIVE rstrip(_)
rstrip(s) ==
    IF s # <<>> /\ s[Len(s)] \in Whitespace
    THEN rstrip(SubSeq(s, 1, Len(s) - 1))
    ELSE s

\* str.strip()
strip(s) == rstrip(lstrip(s))

DigitChars == <<"0", "1", "2", "3", "4", "5", "6", "7", "8", "9">>

RECURSIVE Decimal(_)
Decimal(n) ==
    IF n < 10 THEN <<DigitChars[n + 1]>>
    ELSE Decimal(n \div 10) \o <<DigitChars[(n % 10) + 1]>>

\* str(v)
PyStr(v) ==
    CASE v.t = "str" -> v.s
      [] v.t = "num" -> Decimal(v.n)
      [] OTHER -> <<"N", "o", "n", "e">>

\* d.get(key, default) on the value found under key
DictGet(v, default) == IF v.t = "absent" THEN default ELSE v

\* d.get(key) without its default: a missing key stays missing
GetOrEmptyObject_NoDefault(kind) == kind

\* kind of the value d.get(key, {}) returns: a missing key gives the empty object
GetOrEmptyObject(kind) == IF kind = "absent" THEN "obj" ELSE kind

----------------------------------------------------------------------------
(* Text used by the model *)

EmptyStr == <<>>
SaleText == <<"s", "a", "l", "e">>
NA == <<"N", "/", "A">>
Mew == <<"M", "e", "w">>
MewPadded == <<" ", "M", "e", "w", "\f">>
Blank == <<" ", "\f">>
NinePadded == <<" ", "9", " ">>
UnknownPokemon ==
    <<"U", "n", "k", "n", "o", "w", "n", " ", "P", "o", "k", "e", "m", "o", "n">>
Zero == <<"0">>
SaleMarkup == <<"<", "b", ">">>
TestPokemon == <<"T", "E", "S", "T", "_", "P", "O", "K", "E", "M", "O", "N">>

----------------------------------------------------------------------------
(* Request payloads: the JSON sent to POST /process.  data, email_details, *)
(* parsed_data and body are "absent", "obj" (a JSON object) or "nonobj"    *)
(* (null, a string, a number, a list; for data also a missing or malformed *)
(* JSON document).  textBody and htmlBody are the values found in body.    *)

Kinds == {"absent", "obj", "nonobj"}

TextValues == {Absent, Str(EmptyStr), Str(SaleText), Num(7)}

Payload(d, e, p, b, t, h) ==
    [data |-> d, email_details |-> e, parsed_data |-> p, body |-> b,
     textBody |-> t, htmlBody |-> h]

\* the <<textBody, htmlBody>> pairs of an object body: every htmlBody under
\* a missing or empty textBody, and a missing or a conflicting htmlBody
\* under a textBody that is text or a number
BodyPairs ==
    {<<t, h>> : t \in {Absent, Str(EmptyStr)}, h \in TextValues}
    \cup {<<Str(SaleText), Absent>>, <<Str(SaleText), Num(7)>>,
          <<Num(7), Absent>>, <<Num(7), Str(SaleText)>>}

\* a sample payload whose bodies sit beside email_details, not under body
test_data_NoBody == Payload("obj", "obj", "obj", "absent", Absent, Absent)

\* lines 328-353: the sample payload of POST /test, a text body and a markup
\* body that differ
test_data == Payload("obj", "obj", "obj", "obj", Str(SaleText), Str(SaleMarkup))

\* a request without a JSON object; also stands where there is no payload
NoPayload == Payload("nonobj", "absent", "absent", "absent", Absent, Absent)

Payloads ==
    {Payload("nonobj", "absent", "absent", "absent", Absent, Absent)}
    \cup {test_data}
    \cup {Payload("obj", e, p, "absent", Absent, Absent) : e \in Kinds, p \in Kinds}
    \cup {Payload("obj", "obj", p, "nonobj", Absent, Absent) : p \in Kinds}
    \cup {Payload("obj", "obj", "obj", "obj", b[1], b[2]) : b \in BodyPairs}

----------------------------------------------------------------------------
(* Outcomes of the external calls *)

\* what payout_chain.invoke returns: None / {} ("none"), a dict, or parsed
\* JSON that is no dict, such as a list ("nondict"), on which .get raises
None == [kind |-> "none", pokemon_name |-> Absent, payout |-> Absent]
NonDict == [kind |-> "nondict", pokemon_name |-> Absent, payout |-> Absent]
Dict(name, pay) == [kind |-> "dict", pokemon_name |-> name, payout |-> pay]

\* responses that lack a field or hold a falsy one
InvalidReturns ==
    {None,
     NonDict,
     Dict(Absent, Str(NinePadded)),
     Dict(Str(EmptyStr), Str(NA)),
     Dict(Str(MewPadded), Absent),
     Dict(Str(MewPadded), Str(EmptyStr)),
     Dict(Str(MewPadded), Num(0))}

\* responses whose two fields are truthy
ValidReturns ==
    {Dict(Str(NA), Str(NA)),
     Dict(Str(Blank), Str(Blank)),
     Dict(Str(MewPadded), Num(15))}

ExtractorReturns == InvalidReturns \cup ValidReturns

\* an extractor call raises, or returns a value
ExtractorOutcomes ==
    {[raises |-> TRUE, value |-> None]}
    \cup {[raises |-> FALSE, value |-> v] : v \in ExtractorReturns}

\* what happens inside initialize_google_sheets
ConnectOutcomes == {"no_service_account", "client_error", "row_count_error", "ok"}

\* worksheet.append_row either appends the row or raises and appends nothing
AppendOutcomes == {"ok", "raises"}

----------------------------------------------------------------------------
(* Results *)

Analysis(type, conf, hasData, name, pay, hasTs, ts) ==
    [email_type |-> type, confidence |-> conf,
     has_extracted_data |-> hasData, pokemon_name |-> name, payout |-> pay,
     has_timestamp |-> hasTs, timestamp |-> ts]

NoAnalysis == Analysis("none", 0, FALSE, Absent, Absent, FALSE, 0)

\* lines 115-119
no_content_result == Analysis("no_content", 0, FALSE, Absent, Absent, FALSE, 0)

\* lines 141-145
llm_error_result == Analysis("llm_error", 0, FALSE, Absent, Absent, FALSE, 0)

\* the connect failure answered without the extracted record
sheets_error_result_NoData(er) ==
    Analysis("sheets_error", 80, FALSE, Absent, Absent, FALSE, 0)

\* lines 160-168: the raw fields of email_response
sheets_error_result(er) ==
    Analysis("sheets_error", 80, TRUE, er.pokemon_name, er.payout, FALSE, 0)

\* lines 207-215: the cleaned locals pokemon_name and payout_amount
append_error_result(name, pay) ==
    Analysis("append_error", 80, TRUE, Str(name), Str(pay), FALSE, 0)

\* a result stamped with the time of the append that succeeded
pokemon_sale_result_Now(name, pay, time) ==
    Analysis("pokemon_sale", 95, TRUE, Str(name), Str(pay), TRUE, clock)

\* a confidence lowered when the append had to be retried
pokemon_sale_result_ByAttempts(name, pay, time) ==
    Analysis("pokemon_sale", IF attempt > 0 THEN 80 ELSE 95,
             TRUE, Str(name), Str(pay), TRUE, time)

\* lines 218-245 (the summary fields repeat pokemon_name, payout_amount and
\* current_time in fixed templates and carry no further information)
pokemon_sale_result(name, pay, time) ==
    Analysis("pokemon_sale", 95, TRUE, Str(name), Str(pay), TRUE, time)

\* lines 269-275
error_result == Analysis("error", 0, FALSE, Absent, Absent, FALSE, 0)

NoResponse ==
    [http |-> 0, status |-> "none", has_analysis |-> FALSE, llm_analysis |-> NoAnalysis,
     has_error |-> FALSE, google_sheets |-> "none", groq_llm |-> "none"]

\* lines 298-306
Http200(a) ==
    [http |-> 200, status |-> "success", has_analysis |-> TRUE, llm_analysis |-> a,
     has_error |-> FALSE, google_sheets |-> "none", groq_llm |-> "none"]

\* line 310
Http500 ==
    [http |-> 500, status |-> "none", has_analysis |-> FALSE, llm_analysis |-> NoAnalysis,
     has_error |-> TRUE, google_sheets |-> "none", groq_llm |-> "none"]

\* lines 357-361
TestResponse(a) ==
    [http |-> 200, status |-> "test_success", has_analysis |-> TRUE, llm_analysis |-> a,
     has_error |-> FALSE, google_sheets |-> "none", groq_llm |-> "none"]

\* a health report that takes the connection alone for the round trip
health_response_ConnectOnly(sheets_status) ==
    [http |-> 200, status |-> "healthy", has_analysis |-> FALSE, llm_analysis |-> NoAnalysis,
     has_error |-> FALSE,
     google_sheets |-> IF pc = "health_append" THEN "connected" ELSE "disconnected",
     groq_llm |-> "available"]

\* lines 317-323
health_response(sheets_status) ==
    [http |-> 200, status |-> "healthy", has_analysis |-> FALSE, llm_analysis |-> NoAnalysis,
     has_error |-> FALSE,
     google_sheets |-> IF sheets_status THEN "connected" ELSE "disconnected",
     groq_llm |-> "available"]

\* the response of the route that called analyze_with_llm
Respond(route, a) == IF route = "test" THEN TestResponse(a) ELSE Http200(a)

----------------------------------------------------------------------------
(* Pure parts of process and analyze_with_llm *)

\* one attempt too many
max_retries_OffByOne == 3 + 1

max_retries == 3

\* process that reads a missing JSON document as an empty object
ProcessRaises_FieldsOnly(p) ==
    \/ GetOrEmptyObject(p.email_details) # "obj"
    \/ GetOrEmptyObject(p.parsed_data) # "obj"

\* process without the prints that call .get on email_details and parsed_data
ProcessRaises_DataOnly(p) == p.data # "obj"

\* lines 280-290: request.json raises without a JSON document, data.get
\* raises unless data is an object, and the prints call .get on
\* email_details and parsed_data
ProcessRaises(p) ==
    \/ p.data # "obj"
    \/ GetOrEmptyObject(p.email_details) # "obj"
    \/ GetOrEmptyObject(p.parsed_data) # "obj"

\* line 112: .get on a body that is not an object raises AttributeError
BodyRaises(p) == GetOrEmptyObject(p.body) # "obj"

\* line 112: textBody or htmlBody, each defaulting to ''
EmailBody(p) ==
    LET t == DictGet(p.textBody, Str(EmptyStr))
    IN  IF Truthy(t) THEN t ELSE DictGet(p.htmlBody, Str(EmptyStr))

\* line 121: email_body[:200] raises on a number
SliceRaises(v) == v.t # "str"

\* analyze_with_llm without the check for an empty body
Entry_NoEmptyCheck(p) ==
    IF BodyRaises(p) THEN "error"
    ELSE IF SliceRaises(EmailBody(p)) THEN "error"
    ELSE "extract"

\* lines 110-121 and 269-275: where analyze_with_llm stands before its
\* first external call
Entry(p) ==
    IF BodyRaises(p) THEN "error"
    ELSE IF ~Truthy(EmailBody(p)) THEN "no_content"
    ELSE IF SliceRaises(EmailBody(p)) THEN "error"
    ELSE "extract"

\* a validation that looks at payout only
ValidResponse_PayoutOnly(r) ==
    /\ r.kind # "nondict"
    /\ ~(r.kind = "none" \/ ~Truthy(r.payout))

\* a validation that looks at pokemon_name only
ValidResponse_NameOnly(r) ==
    /\ r.kind # "nondict"
    /\ ~(r.kind = "none" \/ ~Truthy(r.pokemon_name))

\* line 133, negated: the response passes validation (.get on a response
\* that is no dict raises, which the except at line 138 takes as a failure)
ValidResponse(r) ==
    /\ r.kind # "nondict"
    /\ ~(r.kind = "none" \/ ~Truthy(r.pokemon_name) \/ ~Truthy(r.payout))

\* lines 53-85: TRUE iff the worksheet returned is not None
initialize_google_sheets(o) == o = "ok"

\* a cleaning that keeps "N/A" as a name
CleanName_NoNA(v) ==
    LET s == strip(PyStr(v))
    IN  IF s = EmptyStr THEN UnknownPokemon ELSE s

\* lines 178, 184-185
CleanName(v) ==
    LET s == strip(PyStr(v))
    IN  IF s = EmptyStr \/ s = NA THEN UnknownPokemon ELSE s

\* a cleaning that defaults "N/A" but not a blank payout
CleanPayout_NoBlank(v) ==
    LET s == strip(PyStr(v))
    IN  IF s = NA THEN Zero ELSE s

\* a cleaning that does not strip the payout
CleanPayout_NoStrip(v) ==
    LET s == PyStr(v)
    IN  IF s = EmptyStr \/ s = NA THEN Zero ELSE s

\* lines 179, 186-187
CleanPayout(v) ==
    LET s == strip(PyStr(v))
    IN  IF s = EmptyStr \/ s = NA THEN Zero ELSE s

\* the name and payout columns exchanged
RowData_Swapped(time, er) ==
    <<time, CleanPayout(er.payout), CleanName(er.pokemon_name)>>

\* lines 190-194
RowData(time, er) == <<time, CleanName(er.pokemon_name), CleanPayout(er.payout)>>

\* lines 93-97
test_row(time) == <<time, TestPokemon, Zero>>

\* an append that skips a row the sheet already holds
append_row_Dedup(sheet, row) ==
    IF \E i \in 1..Len(sheet) : sheet[i] = row THEN sheet ELSE Append(sheet, row)

\* an append that writes below the header, above the older rows
append_row_Insert(sheet, row) == <<row>> \o sheet

\* lines 98 and 201: worksheet.append_row adds the row after the last one
append_row(sheet, row) == Append(sheet, row)

----------------------------------------------------------------------------
(* The state machine *)

Call(c, ok) == [call |-> c, ok |-> ok]

Init ==
    /\ ledger = <<>>
    /\ clock = 0
    /\ pc = "idle"
    /\ endpoint = "none"
    /\ served = 0
    /\ req = Payload("nonobj", "absent", "absent", "absent", Absent, Absent)
    /\ email_response = None
    /\ attempt = 0
    /\ worksheet = FALSE
    /\ row_data = <<>>
    /\ calls = <<>>
    /\ ledger0 = <<>>
    /\ response = NoResponse

\* time passes
Tick ==
    /\ clock < MaxClock
    /\ clock' = clock + 1
    /\ UNCHANGED <<ledger, pc, endpoint, served, req, email_response, attempt,
                   worksheet, row_data, calls, ledger0, response>>

\* lines 277-310 and 108-126: POST /process arrives with payload p; the
\* handler runs up to its first external call, or to its response when it
\* makes none
process(p) ==
    /\ pc = "idle"
    /\ served < MaxRequests
    /\ served' = served + 1
    /\ endpoint' = "process"
    /\ req' = p
    /\ email_response' = None
    /\ attempt' = 0
    /\ worksheet' = FALSE
    /\ row_data' = <<>>
    /\ calls' = <<>>
    /\ ledger0' = ledger
    /\ IF ProcessRaises(p)
       THEN response' = Http500 /\ pc' = "idle"
       ELSE CASE Entry(p) = "error" ->
                    response' = Http200(error_result) /\ pc' = "idle"
              [] Entry(p) = "no_content" ->
                    response' = Http200(no_content_result) /\ pc' = "idle"
              [] OTHER ->
                    response' = NoResponse /\ pc' = "extract"
    /\ UNCHANGED <<ledger, clock>>

\* lines 325-361 and 108-126: POST /test arrives; analyze_with_llm is called
\* on test_data and runs up to its first external call
test ==
    /\ pc = "idle"
    /\ served < MaxRequests
    /\ served' = served + 1
    /\ endpoint' = "test"
    /\ req' = test_data
    /\ email_response' = None
    /\ attempt' = 0
    /\ worksheet' = FALSE
    /\ row_data' = <<>>
    /\ calls' = <<>>
    /\ ledger0' = ledger
    /\ CASE Entry(test_data) = "error" ->
                response' = TestResponse(error_result) /\ pc' = "idle"
         [] Entry(test_data) = "no_content" ->
                response' = TestResponse(no_content_result) /\ pc' = "idle"
         [] OTHER ->
                response' = NoResponse /\ pc' = "extract"
    /\ UNCHANGED <<ledger, clock>>

\* an extraction loop that never gives up: a failure is always retried
extract_attempt_NoGiveUp(o) ==
    /\ pc = "extract"
    /\ LET ok == ~o.raises /\ ValidResponse(o.value)
       IN  /\ calls' = Append(calls, Call("extract", ok))
           /\ email_response' = IF o.raises THEN email_response ELSE o.value
           /\ IF ok
              THEN pc' = "connect" /\ attempt' = 0 /\ response' = response
              ELSE pc' = pc /\ attempt' = attempt + 1 /\ response' = response
    /\ UNCHANGED <<ledger, clock, endpoint, served, req, worksheet, row_data, ledger0>>

\* lines 127-146: one pass of the extraction retry loop
extract_attempt(o) ==
    /\ pc = "extract"
    /\ LET ok == ~o.raises /\ ValidResponse(o.value)
       IN  /\ calls' = Append(calls, Call("extract", ok))
           \* line 129 assigns email_response only when invoke returns
           /\ email_response' = IF o.raises THEN email_response ELSE o.value
           /\ IF ok
              THEN pc' = "connect" /\ attempt' = 0 /\ response' = response
              ELSE IF attempt = max_retries - 1
              THEN /\ response' = Respond(endpoint, llm_error_result)
                   /\ pc' = "idle"
                   /\ attempt' = attempt
              ELSE pc' = pc /\ attempt' = attempt + 1 /\ response' = response
    /\ UNCHANGED <<ledger, clock, endpoint, served, req, worksheet, row_data, ledger0>>

\* a connect that probes the sheet by writing a row to it
connect_attempt_Probe(o) ==
    /\ pc = "connect"
    /\ LET ok == initialize_google_sheets(o)
       IN  /\ calls' = Append(calls, Call("connect", ok))
           /\ worksheet' = ok
           /\ ledger' = IF ok THEN Append(ledger, test_row(clock)) ELSE ledger
           /\ IF ok
              THEN /\ row_data' = RowData(clock, email_response)
                   /\ pc' = "append"
                   /\ attempt' = 0
                   /\ response' = response
              ELSE IF attempt = max_retries - 1
              THEN /\ response' = Respond(endpoint, sheets_error_result(email_response))
                   /\ pc' = "idle"
                   /\ UNCHANGED <<attempt, row_data>>
              ELSE /\ attempt' = attempt + 1
                   /\ UNCHANGED <<pc, response, row_data>>
    /\ UNCHANGED <<clock, endpoint, served, req, email_response, ledger0>>

\* lines 149-196: one pass of the connect retry loop; on success the row is
\* prepared (timestamp, cleaned fields) before the first append attempt
connect_attempt(o) ==
    /\ pc = "connect"
    /\ LET ok == initialize_google_sheets(o)
       IN  /\ calls' = Append(calls, Call("connect", ok))
           /\ worksheet' = ok
           /\ IF ok
              THEN /\ row_data' = RowData(clock, email_response)
                   /\ pc' = "append"
                   /\ attempt' = 0
                   /\ response' = response
              ELSE IF attempt = max_retries - 1
              THEN /\ response' = Respond(endpoint, sheets_error_result(email_response))
                   /\ pc' = "idle"
                   /\ UNCHANGED <<attempt, row_data>>
              ELSE /\ attempt' = attempt + 1
                   /\ UNCHANGED <<pc, response, row_data>>
    /\ UNCHANGED <<ledger, clock, endpoint, served, req, email_response, ledger0>>

\* an append loop without its break: a success is followed by the next pass
append_attempt_NoBreak(o) ==
    /\ pc = "append"
    /\ LET ok == o = "ok"
       IN  /\ calls' = Append(calls, Call("append", ok))
           /\ ledger' = IF ok THEN append_row(ledger, row_data) ELSE ledger
           /\ IF attempt = max_retries - 1
              THEN /\ response' =
                        IF ok
                        THEN Respond(endpoint, pokemon_sale_result(row_data[2],
                                                 row_data[3], row_data[1]))
                        ELSE Respond(endpoint, append_error_result(row_data[2],
                                                 row_data[3]))
                   /\ pc' = "idle"
                   /\ attempt' = attempt
              ELSE /\ attempt' = attempt + 1
                   /\ UNCHANGED <<pc, response>>
    /\ UNCHANGED <<clock, endpoint, served, req, email_response, worksheet,
                   row_data, ledger0>>

\* lines 199-245: one pass of the append retry loop
append_attempt(o) ==
    /\ pc = "append"
    /\ LET ok == o = "ok"
       IN  /\ calls' = Append(calls, Call("append", ok))
           /\ IF ok
              THEN /\ ledger' = append_row(ledger, row_data)
                   /\ response' =
                        Respond(endpoint,
                                pokemon_sale_result(row_data[2], row_data[3], row_data[1]))
                   /\ pc' = "idle"
                   /\ attempt' = attempt
              ELSE IF attempt = max_retries - 1
              THEN /\ response' =
                        Respond(endpoint, append_error_result(row_data[2], row_data[3]))
                   /\ pc' = "idle"
                   /\ UNCHANGED <<ledger, attempt>>
              ELSE /\ attempt' = attempt + 1
                   /\ UNCHANGED <<ledger, pc, response>>
    /\ UNCHANGED <<clock, endpoint, served, req, email_response, worksheet,
                   row_data, ledger0>>

\* lines 312-315 and 87-90: GET /health arrives and
\* test_google_sheets_connection runs up to its connect call
health ==
    /\ pc = "idle"
    /\ served < MaxRequests
    /\ served' = served + 1
    /\ endpoint' = "health"
    /\ req' = NoPayload
    /\ email_response' = None
    /\ attempt' = 0
    /\ worksheet' = FALSE
    /\ row_data' = <<>>
    /\ calls' = <<>>
    /\ ledger0' = ledger
    /\ response' = NoResponse
    /\ pc' = "health_connect"
    /\ UNCHANGED <<ledger, clock>>

\* lines 90-97 and 317-323: the one connect call returns; with a worksheet
\* the test row is prepared, without one the probe reports False
health_connect(o) ==
    /\ pc = "health_connect"
    /\ LET ok == initialize_google_sheets(o)
       IN  /\ calls' = Append(calls, Call("connect", ok))
           /\ worksheet' = ok
           /\ IF ok
              THEN /\ row_data' = test_row(clock)
                   /\ pc' = "health_append"
                   /\ response' = response
              ELSE /\ row_data' = row_data
                   /\ pc' = "idle"
                   /\ response' = health_response(FALSE)
    /\ UNCHANGED <<ledger, clock, endpoint, served, req, email_response, attempt,
                   ledger0>>

\* lines 98-106 and 317-323: the one append of the test row; an append that
\* raises is caught and the probe reports False
health_append(o) ==
    /\ pc = "health_append"
    /\ LET ok == o = "ok"
       IN  /\ calls' = Append(calls, Call("append", ok))
           /\ ledger' = IF ok THEN append_row(ledger, row_data) ELSE ledger
           /\ response' = health_response(ok)
           /\ pc' = "idle"
    /\ UNCHANGED <<clock, endpoint, served, req, email_response, attempt,
                   worksheet, row_data, ledger0>>

Next ==
    \/ Tick
    \/ \E p \in Payloads : process(p)
    \/ test
    \/ health
    \/ \E o \in ConnectOutcomes : health_connect(o)
    \/ \E o \in AppendOutcomes : health_append(o)
    \/ \E o \in ExtractorOutcomes : extract_attempt(o)
    \/ \E o \in ConnectOutcomes : connect_attempt(o)
    \/ \E o \in AppendOutcomes : append_attempt(o)

Spec == Init /\ [][Next]_vars

\* lines 127-216: the external call a run is waiting on returns or raises,
\* and the loop around it takes its next pass
analyze_step ==
    \/ \E o \in ExtractorOutcomes : extract_attempt(o)
    \/ \E o \in ConnectOutcomes : connect_attempt(o)
    \/ \E o \in AppendOutcomes : append_attempt(o)

\* the handlers under the assumption that no external call hangs
FairSpec == Spec /\ WF_vars(analyze_step)

----------------------------------------------------------------------------
(* Two POST /process requests in flight at once. The server runs each      *)
(* request in a thread of its own: the locals of process and               *)
(* analyze_with_llm (req, email_response, attempt, worksheet, row_data,    *)
(* response) and the position pc exist once per request and are functions  *)
(* of the request here; the ledger and the clock are the only things the   *)
(* two share. Each external call is one step, and the steps of the two     *)
(* requests interleave freely. calls[r] logs what each call of request r   *)
(* gave back to it.                                                        *)

Requests == {1, 2}

ConcPayloads ==
    {test_data, Payload("obj", "obj", "obj", "obj", Str(EmptyStr), Absent)}

ConcExtractorOutcomes ==
    {[raises |-> TRUE, value |-> None], [raises |-> FALSE, value |-> None]}
    \cup {[raises |-> FALSE, value |-> v] :
              v \in {Dict(Str(NA), Str(NA)), Dict(Str(MewPadded), Num(15))}}

ConcConnectOutcomes == {"client_error", "ok"}

\* what a call gave back: the record of a valid extraction, the time read
\* after a successful connect
Outcome(c, ok, v, t) == [call |-> c, ok |-> ok, value |-> v, time |-> t]

ConcInit ==
    /\ ledger = <<>>
    /\ clock = 0
    /\ endpoint = "process"
    /\ served = 0
    /\ ledger0 = <<>>
    /\ pc = [r \in Requests |-> "idle"]
    /\ req = [r \in Requests |-> NoPayload]
    /\ email_response = [r \in Requests |-> None]
    /\ attempt = [r \in Requests |-> 0]
    /\ worksheet = [r \in Requests |-> FALSE]
    /\ row_data = [r \in Requests |-> <<>>]
    /\ calls = [r \in Requests |-> <<>>]
    /\ response = [r \in Requests |-> NoResponse]

\* lines 277-310 and 108-126: request r arrives with payload p
process_concurrent(r, p) ==
    /\ pc[r] = "idle"
    /\ response[r] = NoResponse
    /\ served' = served + 1
    /\ req' = [req EXCEPT ![r] = p]
    /\ IF ProcessRaises(p)
       THEN response' = [response EXCEPT ![r] = Http500] /\ pc' = pc
       ELSE CASE Entry(p) = "error" ->
                    response' = [response EXCEPT ![r] = Http200(error_result)] /\ pc' = pc
              [] Entry(p) = "no_content" ->
                    response' = [response EXCEPT ![r] = Http200(no_content_result)]
                    /\ pc' = pc
              [] OTHER ->
                    response' = response /\ pc' = [pc EXCEPT ![r] = "extract"]
    /\ UNCHANGED <<ledger, clock, endpoint, email_response, attempt, worksheet,
                   row_data, calls, ledger0>>

\* lines 127-146: one pass of request r's extraction loop
extract_concurrent(r, o) ==
    /\ pc[r] = "extract"
    /\ LET ok == ~o.raises /\ ValidResponse(o.value)
       IN  /\ calls' = [calls EXCEPT ![r] =
                           Append(@, Outcome("extract", ok, IF ok THEN o.value ELSE None, 0))]
           /\ email_response' =
                 IF o.raises THEN email_response
                 ELSE [email_response EXCEPT ![r] = o.value]
           /\ IF ok
              THEN /\ pc' = [pc EXCEPT ![r] = "connect"]
                   /\ attempt' = [attempt EXCEPT ![r] = 0]
                   /\ response' = response
              ELSE IF attempt[r] = max_retries - 1
              THEN /\ response' = [response EXCEPT ![r] = Http200(llm_error_result)]
                   /\ pc' = [pc EXCEPT ![r] = "idle"]
                   /\ attempt' = attempt
              ELSE /\ attempt' = [attempt EXCEPT ![r] = @ + 1]
                   /\ UNCHANGED <<pc, response>>
    /\ UNCHANGED <<ledger, clock, endpoint, served, req, worksheet, row_data, ledger0>>

\* lines 149-196: one pass of request r's connect loop
connect_concurrent(r, o) ==
    /\ pc[r] = "connect"
    /\ LET ok == initialize_google_sheets(o)
       IN  /\ calls' = [calls EXCEPT ![r] =
                           Append(@, Outcome("connect", ok, None, IF ok THEN clock ELSE 0))]
           /\ worksheet' = [worksheet EXCEPT ![r] = ok]
           /\ IF ok
              THEN /\ row_data' = [row_data EXCEPT ![r] = RowData(clock, email_response[r])]
                   /\ pc' = [pc EXCEPT ![r] = "append"]
                   /\ attempt' = [attempt EXCEPT ![r] = 0]
                   /\ response' = response
              ELSE IF attempt[r] = max_retries - 1
              THEN /\ response' = [response EXCEPT ![r] =
                                      Http200(sheets_error_result(email_response[r]))]
                   /\ pc' = [pc EXCEPT ![r] = "idle"]
                   /\ UNCHANGED <<attempt, row_data>>
              ELSE /\ attempt' = [attempt EXCEPT ![r] = @ + 1]
                   /\ UNCHANGED <<pc, response, row_data>>
    /\ UNCHANGED <<ledger, clock, endpoint, served, req, email_response, ledger0>>

\* an append of a row kept in one place for all requests: the row of the
\* other request, once it has one, is the row sent
append_concurrent_SharedRow(r, o) ==
    /\ pc[r] = "append"
    /\ LET ok == o = "ok"
           shared == IF \E q \in Requests \ {r} : row_data[q] # <<>>
                     THEN row_data[CHOOSE q \in Requests \ {r} : row_data[q] # <<>>]
                     ELSE row_data[r]
       IN  /\ calls' = [calls EXCEPT ![r] = Append(@, Outcome("append", ok, None, 0))]
           /\ IF ok
              THEN /\ ledger' = append_row(ledger, shared)
                   /\ response' = [response EXCEPT ![r] =
                         Http200(pokemon_sale_result(shared[2], shared[3], shared[1]))]
                   /\ pc' = [pc EXCEPT ![r] = "idle"]
                   /\ attempt' = attempt
              ELSE IF attempt[r] = max_retries - 1
              THEN /\ response' = [response EXCEPT ![r] =
                         Http200(append_error_result(shared[2], shared[3]))]
                   /\ pc' = [pc EXCEPT ![r] = "idle"]
                   /\ UNCHANGED <<ledger, attempt>>
              ELSE /\ attempt' = [attempt EXCEPT ![r] = @ + 1]
                   /\ UNCHANGED <<ledger, pc, response>>
    /\ UNCHANGED <<clock, endpoint, served, req, email_response, worksheet,
                   row_data, ledger0>>

\* lines 199-245: one pass of request r's append loop
append_concurrent(r, o) ==
    /\ pc[r] = "append"
    /\ LET ok == o = "ok"
       IN  /\ calls' = [calls EXCEPT ![r] = Append(@, Outcome("append", ok, None, 0))]
           /\ IF ok
              THEN /\ ledger' = append_row(ledger, row_data[r])
                   /\ response' = [response EXCEPT ![r] =
                         Http200(pokemon_sale_result(row_data[r][2], row_data[r][3],
                                                     row_data[r][1]))]
                   /\ pc' = [pc EXCEPT ![r] = "idle"]
                   /\ attempt' = attempt
              ELSE IF attempt[r] = max_retries - 1
              THEN /\ response' = [response EXCEPT ![r] =
                         Http200(append_error_result(row_data[r][2], row_data[r][3]))]
                   /\ pc' = [pc EXCEPT ![r] = "idle"]
                   /\ UNCHANGED <<ledger, attempt>>
              ELSE /\ attempt' = [attempt EXCEPT ![r] = @ + 1]
                   /\ UNCHANGED <<ledger, pc, response>>
    /\ UNCHANGED <<clock, endpoint, served, req, email_response, worksheet,
                   row_data, ledger0>>

ConcNext ==
    \/ Tick
    \/ \E r \in Requests, p \in ConcPayloads : process_concurrent(r, p)
    \/ \E r \in Requests, o \in ConcExtractorOutcomes : extract_concurrent(r, o)
    \/ \E r \in Requests, o \in ConcConnectOutcomes : connect_concurrent(r, o)
    \/ \E r \in Requests, o \in AppendOutcomes : append_concurrent(r, o)

ConcSpec == ConcInit /\ [][ConcNext]_vars

TypeOK ==
    /\ clock \in 0..MaxClock
    /\ served \in 0..MaxRequests
    /\ pc \in {"idle", "extract", "connect", "append", "health_connect", "health_append"}
    /\ endpoint \in {"none", "process", "test", "health"}
    /\ attempt \in 0..(max_retries - 1)
    /\ worksheet \in BOOLEAN
    /\ req \in Payloads

----------------------------------------------------------------------------
(* Vocabulary of the properties *)

\* the handler has answered the request it received last, and the request
\* was one that calls analyze_with_llm
Returned == pc = "idle" /\ endpoint \in {"process", "test"}

\* GET /health has answered
HealthReturned == pc = "idle" /\ endpoint = "health"

Result == response.llm_analysis

NCalls(c) == Cardinality({i \in 1..Len(calls) : calls[i].call = c})
NFailed(c) == Cardinality({i \in 1..Len(calls) : calls[i].call = c /\ ~calls[i].ok})
NSucceeded(c) == Cardinality({i \in 1..Len(calls) : calls[i].call = c /\ calls[i].ok})

\* a text or markup body that is missing or the empty string
EmptyOrMissing(v) == v.t = "absent" \/ (v.t = "str" /\ Len(v.s) = 0)

\* a field of an extractor response that is present and not empty
NonEmptyField(v) == v.t \in {"str", "num"} /\ ~(v.t = "str" /\ Len(v.s) = 0)

\* the text of field v with its sentinel default in place of a blank or "N/A"
SentinelOr(v, sentinel) ==
    LET s == strip(PyStr(v))
    IN  IF Len(s) = 0 \/ s = NA THEN sentinel ELSE s

\* the request is a JSON object whose email_details and parsed_data are
\* objects where present, so that process reaches analyze_with_llm
WellFormedRequest(p) ==
    /\ p.data = "obj"
    /\ p.email_details \in {"absent", "obj"}
    /\ p.parsed_data \in {"absent", "obj"}

\* the body is missing or an object, and its text is a string
TextBodied(p) ==
    /\ p.body \in {"absent", "obj"}
    /\ p.textBody.t \in {"absent", "str"}
    /\ (EmptyOrMissing(p.textBody) => p.htmlBody.t \in {"absent", "str"})

----------------------------------------------------------------------------
(* C1: a payload whose text body and markup body are both empty or missing *)
(* is answered with no_content, confidence 0.0, without any extractor,     *)
(* connect or append call.                                                 *)

C1_Case ==
    /\ served > 0
    /\ WellFormedRequest(req)
    /\ req.body \in {"absent", "obj"}
    /\ EmptyOrMissing(req.textBody)
    /\ EmptyOrMissing(req.htmlBody)

C1_EmptyBodyNoContent ==
    C1_Case =>
        /\ pc = "idle"
        /\ response.http = 200
        /\ Result.email_type = "no_content"
        /\ Result.confidence = 0
        /\ ~Result.has_extracted_data
        /\ calls = <<>>
        /\ ledger = ledger0

C1_Witness ==
    /\ C1_Case
    /\ req.body = "obj"
    /\ req.textBody = Str(EmptyStr)
    /\ req.htmlBody = Absent
    /\ Result.email_type = "no_content"

----------------------------------------------------------------------------
(* C2: when the three extraction attempts all fail the result is           *)
(* llm_error with confidence 0.0 after exactly three extractor calls and   *)
(* no connect or append call; an attempt whose response lacks a non-empty  *)
(* pokemon_name or payout is never taken as a success.                     *)

C2_ExtractionFailed ==
    /\ NFailed("extract") = 3 =>
        /\ Returned
        /\ response.http = 200
        /\ Result.email_type = "llm_error"
        /\ Result.confidence = 0
        /\ NCalls("extract") = 3
        /\ NCalls("connect") = 0
        /\ NCalls("append") = 0
        /\ ledger = ledger0
    /\ (Returned /\ Result.email_type = "llm_error") => NFailed("extract") = 3
    /\ NSucceeded("extract") > 0 =>
        /\ email_response.kind = "dict"
        /\ NonEmptyField(email_response.pokemon_name)
        /\ NonEmptyField(email_response.payout)

C2_Witness ==
    /\ Returned
    /\ NFailed("extract") = 3
    /\ email_response = Dict(Str(MewPadded), Str(EmptyStr))
    /\ Result.email_type = "llm_error"

----------------------------------------------------------------------------
(* C3: when extraction succeeds and the three connect attempts all fail    *)
(* the result is sheets_error with confidence 0.8, its extracted_data      *)
(* holds the two fields of the response that passed validation, as the     *)
(* extractor returned them, no append call is made and the ledger is       *)
(* unchanged.                                                              *)

C3_Case == NSucceeded("extract") = 1 /\ NFailed("connect") = 3

C3_LedgerUnavailable ==
    C3_Case =>
        /\ Returned
        /\ response.http = 200
        /\ Result.email_type = "sheets_error"
        /\ Result.confidence = 80
        /\ Result.has_extracted_data
        /\ Result.pokemon_name = email_response.pokemon_name
        /\ Result.payout = email_response.payout
        /\ email_response \in ValidReturns
        /\ NCalls("append") = 0
        /\ ledger = ledger0

C3_Witness ==
    /\ C3_Case
    /\ Returned
    /\ NFailed("extract") = 2
    /\ Result.email_type = "sheets_error"
    /\ Result.pokemon_name = Str(MewPadded)
    /\ Result.payout = Num(15)

----------------------------------------------------------------------------
(* C4: when extraction and connect succeed and the three append attempts   *)
(* all fail the result is append_error with confidence 0.8, carries the    *)
(* name and payout after normalization, exactly three append calls were    *)
(* made and the ledger holds no row of this request.                       *)

C4_Case ==
    /\ NSucceeded("extract") = 1
    /\ NSucceeded("connect") = 1
    /\ NFailed("append") = 3

C4_AppendFailed ==
    C4_Case =>
        /\ Returned
        /\ response.http = 200
        /\ Result.email_type = "append_error"
        /\ Result.confidence = 80
        /\ Result.has_extracted_data
        /\ Result.pokemon_name = Str(SentinelOr(email_response.pokemon_name, UnknownPokemon))
        /\ Result.payout = Str(SentinelOr(email_response.payout, Zero))
        /\ NCalls("append") = 3
        /\ ledger = ledger0

C4_Witness ==
    /\ C4_Case
    /\ Returned
    /\ email_response = Dict(Str(MewPadded), Num(15))
    /\ Result.email_type = "append_error"
    /\ Result.pokemon_name = Str(Mew)
    /\ Result.payout = Str(<<"1", "5">>)

----------------------------------------------------------------------------
(* C5: when an extraction attempt, a connect attempt and an append attempt *)
(* each succeed the result is pokemon_sale with confidence 0.95, exactly   *)
(* one row [timestamp, name, payout] built from the extractor's record is  *)
(* appended to the ledger, and the result's extracted_data equals that row *)
(* field for field.                                                        *)

C5_Case ==
    /\ NSucceeded("extract") = 1
    /\ NSucceeded("connect") = 1
    /\ NSucceeded("append") = 1

C5_Success ==
    C5_Case =>
        /\ Returned
        /\ response.http = 200
        /\ Result.email_type = "pokemon_sale"
        /\ Result.confidence = 95
        /\ Len(ledger) = Len(ledger0) + 1
        /\ SubSeq(ledger, 1, Len(ledger0)) = ledger0
        /\ LET row == ledger[Len(ledger)]
           IN  /\ Len(row) = 3
               /\ row[1] \in 0..clock
               /\ row[2] = SentinelOr(email_response.pokemon_name, UnknownPokemon)
               /\ row[3] = SentinelOr(email_response.payout, Zero)
               /\ Result.has_extracted_data
               /\ Result.pokemon_name = Str(row[2])
               /\ Result.payout = Str(row[3])
               /\ Result.has_timestamp
               /\ Result.timestamp = row[1]

C5_Witness ==
    /\ C5_Case
    /\ Returned
    /\ NFailed("append") = 1
    /\ Result.email_type = "pokemon_sale"
    /\ ledger = Append(ledger0, <<0, Mew, <<"1", "5">>>>)
    /\ clock = 1

----------------------------------------------------------------------------
(* C6, as amended: a response with an empty pokemon_name (and payout       *)
(* "N/A") fails validation, so it is never normalized nor appended; the    *)
(* normalization applies to a response that passed validation, where a     *)
(* pokemon_name that is blank or "N/A" becomes "Unknown Pokemon" and a     *)
(* payout that is blank or "N/A" becomes "0", and that normalized record   *)
(* is the row appended when connect and append succeed.                    *)

UnknownItem == <<"U", "n", "k", "n", "o", "w", "n", " ", "I", "t", "e", "m">>

EmptyNameRecord == Dict(Str(EmptyStr), Str(NA))

C6_Case ==
    /\ C5_Case
    /\ \/ email_response.pokemon_name \in {Str(Blank), Str(NA)}
       \/ email_response.payout \in {Str(Blank), Str(NA)}

C6_Normalization ==
    /\ (calls # <<>> /\ calls[Len(calls)].call = "extract"
            /\ email_response = EmptyNameRecord) =>
        /\ ~calls[Len(calls)].ok
        /\ pc # "connect"
        /\ ledger = ledger0
    /\ NSucceeded("extract") > 0 => email_response # EmptyNameRecord
    /\ C6_Case =>
        LET row == ledger[Len(ledger)]
        IN  /\ Len(ledger) = Len(ledger0) + 1
            /\ email_response.pokemon_name \in {Str(Blank), Str(NA)}
                  => row[2] = UnknownPokemon
            /\ email_response.payout \in {Str(Blank), Str(NA)}
                  => row[3] = Zero
            /\ Result.pokemon_name = Str(row[2])
            /\ Result.payout = Str(row[3])

C6_Witness ==
    /\ C6_Case
    /\ email_response = Dict(Str(NA), Str(NA))
    /\ calls[1] = Call("extract", FALSE)
    /\ ledger[Len(ledger)][2] = UnknownPokemon
    /\ ledger[Len(ledger)][3] = Zero

\* C6 as stated: the record with an empty name and payout "N/A" is
\* normalized to "Unknown Item" and "0" and appended when connect and append
\* succeed
C6_AsStated ==
    (Returned /\ email_response = EmptyNameRecord
        /\ NFailed("connect") = 0 /\ NFailed("append") = 0) =>
        /\ Result.email_type = "pokemon_sale"
        /\ ledger = Append(ledger0, <<Result.timestamp, UnknownItem, Zero>>)

----------------------------------------------------------------------------
(* C7: within a run the external calls form extract* connect* append*,     *)
(* with at most three calls of each kind: no extract call follows a        *)
(* connect call, and no extract or connect call follows an append call.    *)

StageOf(c) == CASE c = "extract" -> 1 [] c = "connect" -> 2 [] c = "append" -> 3

C7_StageOrder ==
    /\ \A i \in 1..Len(calls) : \A j \in 1..Len(calls) :
          i < j => StageOf(calls[i].call) <= StageOf(calls[j].call)
    /\ NCalls("extract") <= 3
    /\ NCalls("connect") <= 3
    /\ NCalls("append") <= 3
    /\ Len(calls) <= 9

C7_Witness ==
    /\ Returned
    /\ NCalls("extract") = 3
    /\ NCalls("connect") = 3
    /\ NCalls("append") = 3

----------------------------------------------------------------------------
(* C8, as amended: every result of analyze_with_llm has an email_type in   *)
(* no_content, llm_error, sheets_error, append_error, pokemon_sale or      *)
(* error; a failure inside analyze_with_llm outside the first five (a body *)
(* that is not an object, a body text that is not a string) is returned as *)
(* email_type "error" with confidence 0.0 under HTTP 200, and HTTP 500     *)
(* answers exactly the requests that fail in process before the pipeline   *)
(* is called (no JSON object, email_details or parsed_data not an object). *)

FiveKinds == {"no_content", "llm_error", "sheets_error", "append_error", "pokemon_sale"}

C8_Case == Returned /\ WellFormedRequest(req) /\ ~TextBodied(req)

C8_ResultKinds ==
    /\ (Returned /\ response.has_analysis) =>
          Result.email_type \in FiveKinds \cup {"error"}
    /\ C8_Case =>
          /\ response.http = 200
          /\ response.has_analysis
          /\ Result.email_type = "error"
          /\ Result.confidence = 0
          /\ calls = <<>>
          /\ ledger = ledger0
    /\ (Returned /\ Result.email_type = "error") => ~TextBodied(req)
    /\ Returned =>
          /\ response.http \in {200, 500}
          /\ response.http = 500 <=> ~WellFormedRequest(req)
          /\ response.http = 500 =>
                ~response.has_analysis /\ calls = <<>> /\ ledger = ledger0

C8_Witness ==
    /\ C8_Case
    /\ req.body = "nonobj"
    /\ Result.email_type = "error"
    /\ response.http = 200

\* C8 as stated: the result kinds are the five, and a body that is not an
\* object surfaces as HTTP 500
C8_AsStated ==
    /\ (Returned /\ response.has_analysis) => Result.email_type \in FiveKinds
    /\ (Returned /\ req.body = "nonobj") => response.http = 500

----------------------------------------------------------------------------
(* C9: the confidence of a result is fixed by its kind: no_content 0.0,    *)
(* llm_error 0.0, sheets_error 0.8, append_error 0.8, pokemon_sale 0.95,   *)
(* whatever the payload, the extracted values and the attempts used; it    *)
(* lies in [0.0, 1.0].                                                     *)

ConfidenceOf(kind) ==
    CASE kind = "no_content" -> 0
      [] kind = "llm_error" -> 0
      [] kind = "sheets_error" -> 80
      [] kind = "append_error" -> 80
      [] kind = "pokemon_sale" -> 95

C9_ConfidenceTable ==
    (Returned /\ response.has_analysis) =>
        /\ Result.confidence \in 0..100
        /\ Result.email_type \in FiveKinds =>
              Result.confidence = ConfidenceOf(Result.email_type)

C9_Witness ==
    /\ Returned
    /\ Result.email_type = "pokemon_sale"
    /\ Result.confidence = 95
    /\ Len(calls) = 9
    /\ req.textBody = Absent
    /\ email_response = Dict(Str(Blank), Str(Blank))

----------------------------------------------------------------------------
(* C10, as amended: a POST /process request carrying a JSON object whose   *)
(* email_details and parsed_data are objects where present is answered     *)
(* with HTTP 200, status "success" and an llm_analysis result whatever the *)
(* extractor, connect and append calls do, every call failing on every     *)
(* attempt included.                                                       *)

C10_Case == Returned /\ endpoint = "process" /\ WellFormedRequest(req)

C10_ExpectedFailuresAnswer200 ==
    C10_Case =>
        /\ response.http = 200
        /\ response.status = "success"
        /\ response.has_analysis
        /\ Result.email_type # "none"

C10_Witness ==
    /\ C10_Case
    /\ req.parsed_data = "obj"
    /\ Len(calls) = 3
    /\ NFailed("extract") = 3
    /\ email_response = None
    /\ response.http = 200
    /\ response.status = "success"

\* C10 as stated: every request carrying a JSON object is answered with
\* HTTP 200, status "success" and an llm_analysis
C10_AsStated ==
    (Returned /\ endpoint = "process" /\ req.data = "obj") =>
        /\ response.http = 200
        /\ response.status = "success"
        /\ response.has_analysis

----------------------------------------------------------------------------
(* C11: a GET /health call whose connect and append both succeed adds      *)
(* exactly one row [timestamp, "TEST_POKEMON", "0"] after the rows the     *)
(* ledger held; successive calls each add their row, equal rows included.  *)

C11_Case ==
    /\ HealthReturned
    /\ calls = <<Call("connect", TRUE), Call("append", TRUE)>>

C11_HealthAppendsOneRow ==
    C11_Case =>
        /\ Len(ledger) = Len(ledger0) + 1
        /\ SubSeq(ledger, 1, Len(ledger0)) = ledger0
        /\ LET row == ledger[Len(ledger)]
           IN  /\ Len(row) = 3
               /\ row[1] \in 0..clock
               /\ row[2] = TestPokemon
               /\ row[3] = Zero

C11_Witness ==
    /\ C11_Case
    /\ served = 2
    /\ ledger = <<<<0, TestPokemon, Zero>>, <<0, TestPokemon, Zero>>>>

----------------------------------------------------------------------------
(* C12: GET /health answers HTTP 200 with status "healthy" and groq_llm    *)
(* "available"; google_sheets is "connected" exactly when its one connect  *)
(* call and its one append call both succeeded, else "disconnected"; it    *)
(* makes no extractor call and repeats no call.                            *)

C12_Health ==
    /\ endpoint = "health" =>
          /\ NCalls("extract") = 0
          /\ NCalls("connect") = (IF pc = "health_connect" THEN 0 ELSE 1)
          /\ NCalls("append") <= 1
          /\ NCalls("append") = 1 => calls[1].ok
    /\ HealthReturned =>
          /\ response.http = 200
          /\ response.status = "healthy"
          /\ response.groq_llm = "available"
          /\ response.google_sheets \in {"connected", "disconnected"}
          /\ response.google_sheets = "connected" <=>
                calls = <<Call("connect", TRUE), Call("append", TRUE)>>
          /\ ~response.has_analysis

C12_Witness ==
    /\ HealthReturned
    /\ calls = <<Call("connect", TRUE), Call("append", FALSE)>>
    /\ response.google_sheets = "disconnected"
    /\ response.status = "healthy"

----------------------------------------------------------------------------
(* C13: a step that makes a connect call (initialize_google_sheets), in    *)
(* the pipeline or in the health probe, succeeding or failing, leaves the  *)
(* rows of the ledger as they were.                                        *)

ConnectStep ==
    /\ calls' # calls
    /\ calls' # <<>>
    /\ calls'[Len(calls')].call = "connect"

C13_ConnectWritesNothing == [][ConnectStep => ledger' = ledger]_vars

C13_Witness ==
    /\ pc = "append"
    /\ NFailed("connect") = 2
    /\ NSucceeded("connect") = 1
    /\ Len(ledger) = 1
    /\ ledger = ledger0

----------------------------------------------------------------------------
(* C14: the ledger is append-only, one row per processed email: a step     *)
(* keeps the rows the ledger held, in their order, and adds one row after  *)
(* them exactly when it ends a pipeline run with pokemon_sale or a /health *)
(* call with "connected"; every other step, the end of a run with          *)
(* no_content, llm_error, sheets_error or append_error included, adds      *)
(* none.  The rows added thus number the Success runs plus the connected   *)
(* /health calls.                                                          *)

\* the step produces the response of a request
Finishes == pc' = "idle" /\ (pc # "idle" \/ served' # served)

RowAddingEnd ==
    /\ Finishes
    /\ \/ response'.llm_analysis.email_type = "pokemon_sale"
       \/ response'.google_sheets = "connected"

C14_Step ==
    /\ Len(ledger') \in {Len(ledger), Len(ledger) + 1}
    /\ SubSeq(ledger', 1, Len(ledger)) = ledger
    /\ Len(ledger') = Len(ledger) + 1 <=> RowAddingEnd
    /\ Finishes =>
          Len(ledger') = Len(ledger0') + (IF RowAddingEnd THEN 1 ELSE 0)

C14_AppendOnly == [][C14_Step]_vars

C14_Witness ==
    /\ served = 2
    /\ pc = "idle"
    /\ endpoint = "process"
    /\ Result.email_type = "pokemon_sale"
    /\ ledger = <<<<0, TestPokemon, Zero>>, <<1, Mew, <<"1", "5">>>>>>

----------------------------------------------------------------------------
(* C15: no row of the ledger, and no row the pipeline is about to append,  *)
(* has a name or a payout that is empty, blank or "N/A": such a field of   *)
(* the extractor's record is replaced by its sentinel default first.       *)

FilledField(s) == Len(strip(s)) > 0 /\ strip(s) # NA

C15_NoBlankFields ==
    /\ \A i \in 1..Len(ledger) :
          FilledField(ledger[i][2]) /\ FilledField(ledger[i][3])
    /\ pc = "append" => FilledField(row_data[2]) /\ FilledField(row_data[3])

C15_Witness ==
    /\ Returned
    /\ email_response = Dict(Str(Blank), Str(Blank))
    /\ Result.email_type = "pokemon_sale"
    /\ ledger[Len(ledger)] = <<clock, UnknownPokemon, Zero>>

----------------------------------------------------------------------------
(* C16: POST /test runs analyze_with_llm on the fixed sample payload: its  *)
(* llm_analysis and its effect on the ledger are those of POST /process on *)
(* that payload under the same outcomes of the external calls, and its     *)
(* status is "test_success".                                               *)

SamplePayload == Payload("obj", "obj", "obj", "obj", Str(SaleText), Str(SaleMarkup))

\* what the outcomes of the calls make of a run on the sample payload
SampleAnalysis ==
    IF NFailed("extract") = 3 THEN llm_error_result
    ELSE IF NFailed("connect") = 3 THEN sheets_error_result(email_response)
    ELSE IF NFailed("append") = 3 THEN append_error_result(row_data[2], row_data[3])
    ELSE pokemon_sale_result(row_data[2], row_data[3], row_data[1])

C16_TestRunsThePipeline ==
    /\ endpoint = "test" => req = SamplePayload
    /\ (Returned /\ req = SamplePayload) =>
          /\ response.http = 200
          /\ response.has_analysis
          /\ Result = SampleAnalysis
          /\ ledger =
                IF Result.email_type = "pokemon_sale"
                THEN Append(ledger0, row_data)
                ELSE ledger0
          /\ response.status =
                IF endpoint = "test" THEN "test_success" ELSE "success"

C16_Witness ==
    /\ Returned
    /\ endpoint = "test"
    /\ response.status = "test_success"
    /\ Result.email_type = "pokemon_sale"
    /\ NFailed("extract") = 1
    /\ Len(ledger) = Len(ledger0) + 1

----------------------------------------------------------------------------
(* C17: a POST /process request that carries no JSON object is answered    *)
(* with HTTP 500 and an error body; no extractor, connect or append call   *)
(* is made for it and the ledger is unchanged.                             *)

C17_Case == endpoint = "process" /\ req.data = "nonobj"

C17_NoJsonIs500 ==
    C17_Case =>
        /\ pc = "idle"
        /\ response.http = 500
        /\ response.has_error
        /\ ~response.has_analysis
        /\ calls = <<>>
        /\ ledger = ledger0

C17_Witness ==
    /\ C17_Case
    /\ served = 2
    /\ Len(ledger) = 1
    /\ response.http = 500

----------------------------------------------------------------------------
(* C18: each stage stops at its first successful attempt: a successful     *)
(* call is the last call of its stage, so a stage whose first success is   *)
(* attempt k makes exactly k calls; after a successful append no further   *)
(* append is made and a run appends at most one row.                       *)

C18_StopsAtFirstSuccess ==
    /\ \A i \in 1..Len(calls) : \A j \in 1..Len(calls) :
          (calls[i].ok /\ i < j) => calls[j].call # calls[i].call
    /\ \A c \in {"extract", "connect", "append"} :
          /\ NSucceeded(c) <= 1
          /\ NSucceeded(c) = 1 => NCalls(c) = NFailed(c) + 1 /\ NCalls(c) \in 1..3
    /\ NSucceeded("extract") = 1 => pc # "extract"
    /\ NSucceeded("connect") = 1 => pc # "connect"
    /\ NSucceeded("append") = 1 => pc = "idle"
    /\ Len(ledger) <= Len(ledger0) + 1

C18_Witness ==
    /\ Returned
    /\ calls = <<Call("extract", FALSE), Call("extract", TRUE),
                 Call("connect", FALSE), Call("connect", FALSE), Call("connect", TRUE),
                 Call("append", TRUE)>>
    /\ Len(ledger) = Len(ledger0) + 1

----------------------------------------------------------------------------
(* C19: the row, its timestamp included, is computed in the step of the    *)
(* successful connect, before the first append call; it is the same row at *)
(* every append attempt, the row that enters the ledger, and its timestamp *)
(* is the timestamp of the pokemon_sale result, whenever the append that   *)
(* succeeded was made.                                                     *)

C19_Step ==
    /\ (pc = "connect" /\ pc' = "append") =>
          /\ Len(row_data') = 3
          /\ row_data'[1] = clock
          /\ NCalls("append") = 0
    /\ pc = "append" =>
          /\ row_data' = row_data
          /\ ledger' # ledger =>
                /\ ledger' = Append(ledger, row_data)
                /\ response'.llm_analysis.email_type = "pokemon_sale"
                /\ response'.llm_analysis.has_timestamp
                /\ response'.llm_analysis.timestamp = row_data[1]

C19_RowComputedOnce == [][C19_Step]_vars

C19_Witness ==
    /\ Returned
    /\ Result.email_type = "pokemon_sale"
    /\ NFailed("append") = 2
    /\ Result.timestamp = 0
    /\ ledger[Len(ledger)][1] = 0
    /\ clock = 1

----------------------------------------------------------------------------
(* C20: whenever a connect or append call is made in the pipeline, the     *)
(* record held is the response that passed validation, both fields         *)
(* non-empty; it stays that record to the end of the run, the row is built *)
(* from it, and the connect stage is never entered with a record that      *)
(* failed validation.                                                      *)

PassedValidation(r) ==
    /\ r.kind = "dict"
    /\ NonEmptyField(r.pokemon_name)
    /\ NonEmptyField(r.payout)
    /\ r.payout # Num(0)

C20_State ==
    /\ pc \in {"connect", "append"} => PassedValidation(email_response)
    /\ (endpoint \in {"process", "test"} /\ NCalls("connect") + NCalls("append") > 0) =>
          PassedValidation(email_response)
    /\ pc = "append" =>
          /\ row_data[2] = SentinelOr(email_response.pokemon_name, UnknownPokemon)
          /\ row_data[3] = SentinelOr(email_response.payout, Zero)

C20_Step ==
    /\ C20_State'
    /\ pc \in {"connect", "append"} => email_response' = email_response

C20_CarriesValidatedRecord == [][C20_Step]_vars

C20_Witness ==
    /\ pc = "append"
    /\ calls[1] = Call("extract", FALSE)
    /\ calls[2] = Call("extract", FALSE)
    /\ NCalls("append") = 1
    /\ email_response = Dict(Str(MewPadded), Num(15))
    /\ row_data[2] = Mew

----------------------------------------------------------------------------
(* C21: when every external call returns or raises, a run of               *)
(* analyze_with_llm ends: it makes at most 3 extract, 3 connect and 3      *)
(* append calls, 9 in all, has no result while it runs, and then returns   *)
(* one result of a known kind.                                             *)

Running == pc \in {"extract", "connect", "append"}

ResultKinds == FiveKinds \cup {"error"}

C21_Bounded ==
    /\ endpoint \in {"process", "test"} =>
          /\ \A c \in {"extract", "connect", "append"} : NCalls(c) <= 3
          /\ Len(calls) <= 9
    /\ Running => response = NoResponse
    /\ (Returned /\ ~(endpoint = "process" /\ ProcessRaises(req))) =>
          /\ response.has_analysis
          /\ Result.email_type \in ResultKinds

C21_Terminates == []C21_Bounded /\ (Running ~> Returned)

C21_Witness ==
    /\ Returned
    /\ Len(calls) = 9
    /\ NFailed("extract") = 2
    /\ NFailed("connect") = 2
    /\ NFailed("append") = 2
    /\ Result.email_type = "pokemon_sale"

----------------------------------------------------------------------------
(* C22: with two /process requests in flight and their calls interleaved   *)
(* in any order, the response of each request is the one its own payload   *)
(* and the outcomes of its own calls determine, and every row is in the    *)
(* ledger exactly as many times as there are requests whose append of that *)
(* row succeeded: no row is lost, doubled or made of fields of both.       *)

Finished(r) == pc[r] = "idle" /\ response[r] # NoResponse

LastCall(r) == calls[r][Len(calls[r])]

\* the record request r's own valid extraction returned
OwnRecord(r) ==
    LET i == CHOOSE i \in 1..Len(calls[r]) : calls[r][i].call = "extract" /\ calls[r][i].ok
    IN  calls[r][i].value

\* the time request r read after its own successful connect
OwnTime(r) ==
    LET i == CHOOSE i \in 1..Len(calls[r]) : calls[r][i].call = "connect" /\ calls[r][i].ok
    IN  calls[r][i].time

OwnRow(r) ==
    <<OwnTime(r), SentinelOr(OwnRecord(r).pokemon_name, UnknownPokemon),
      SentinelOr(OwnRecord(r).payout, Zero)>>

OwnResult(r) ==
    IF EmptyOrMissing(req[r].textBody) /\ EmptyOrMissing(req[r].htmlBody)
    THEN no_content_result
    ELSE IF LastCall(r).call = "extract" THEN llm_error_result
    ELSE IF LastCall(r).call = "connect"
    THEN Analysis("sheets_error", 80, TRUE, OwnRecord(r).pokemon_name,
                  OwnRecord(r).payout, FALSE, 0)
    ELSE IF ~LastCall(r).ok
    THEN Analysis("append_error", 80, TRUE, Str(OwnRow(r)[2]), Str(OwnRow(r)[3]), FALSE, 0)
    ELSE Analysis("pokemon_sale", 95, TRUE, Str(OwnRow(r)[2]), Str(OwnRow(r)[3]),
                  TRUE, OwnTime(r))

Appended(r) == calls[r] # <<>> /\ LastCall(r).call = "append" /\ LastCall(r).ok

Occurrences(row) == Cardinality({i \in 1..Len(ledger) : ledger[i] = row})

C22_Isolation ==
    /\ \A r \in Requests : Finished(r) => response[r] = Http200(OwnResult(r))
    /\ Len(ledger) = Cardinality({r \in Requests : Appended(r)})
    /\ \A r \in Requests : Appended(r) =>
          Occurrences(OwnRow(r)) = Cardinality({q \in Requests : Appended(q) /\ OwnRow(q) = OwnRow(r)})

C22_Witness ==
    /\ Finished(1) /\ Finished(2)
    /\ Appended(1) /\ Appended(2)
    /\ req[1] = test_data /\ req[2] = test_data
    /\ calls[1][1].ok /\ ~calls[2][1].ok
    /\ ledger = <<<<1, Mew, <<"1", "5">>>>, <<0, UnknownPokemon, Zero>>>>
    /\ OwnRow(1) = <<0, UnknownPokemon, Zero>>
    /\ OwnRow(2) = <<1, Mew, <<"1", "5">>>>

====
